---------------------------- MODULE Spec2Model ----------------------------
(***************************************************************************)
(* A model of DisplayAi (ext/js/display/display-ai.js): the request        *)
(* lifecycle of the AI explanation pane (request tokens, settings fetch,   *)
(* auto/manual mode, explain requests) and the streaming completion client *)
(* (_fetchCompletionStreaming: timeout, line reassembly, [DONE] sentinel). *)
(*                                                                         *)
(* Strings are TLA+ strings; positions are 1-based, so JavaScript's        *)
(* s.slice(a, b) is SubSeq(s, a + 1, b) and indexOf's -1 is 0 here.        *)
(* The character U+2026 of 'AI is thinking...' is written "...".           *)
(***************************************************************************)
EXTENDS Integers, Sequences, FiniteSets, TLC

(***************************************************************************)
(* String primitives used by the code.                                     *)
(***************************************************************************)

CharAt(s, i) == SubSeq(s, i, i)

\* The white space String.prototype.trim strips, within the model's alphabet.
IsWhiteSpace(c) == c \in {" ", "\t", "\n", "\r"}

SetMax(S) == CHOOSE m \in S : \A x \in S : x <= m

SetMin(S) == CHOOSE m \in S : \A x \in S : m <= x

\* The position of the last character of s that is no white space, 0 if none.
LastNonSpace(s) ==
    CHOOSE i \in 0..Len(s) :
        /\ i = 0 \/ ~IsWhiteSpace(CharAt(s, i))
        /\ \A j \in (i + 1)..Len(s) : IsWhiteSpace(CharAt(s, j))

\* The position of the first character of s that is no white space, Len(s) + 1 if none.
FirstNonSpace(s) ==
    CHOOSE i \in 1..(Len(s) + 1) :
        /\ i = Len(s) + 1 \/ ~IsWhiteSpace(CharAt(s, i))
        /\ \A j \in 1..(i - 1) : IsWhiteSpace(CharAt(s, j))

TrimEnd(s) == SubSeq(s, 1, LastNonSpace(s))

Trim(s) == SubSeq(s, FirstNonSpace(s), LastNonSpace(s))

StartsWith(s, p) == Len(s) >= Len(p) /\ SubSeq(s, 1, Len(p)) = p

EndsWith(s, p) == Len(s) >= Len(p) /\ SubSeq(s, Len(s) - Len(p) + 1, Len(s)) = p

\* Position of the first occurrence of the character c in s, 0 when absent.
IndexOf(s, c) ==
    CHOOSE i \in (1..Len(s)) \cup {0} :
        /\ i = 0 \/ CharAt(s, i) = c
        /\ \A j \in 1..(IF i = 0 THEN Len(s) ELSE i - 1) : CharAt(s, j) # c

\* s.slice(n): s without its first n characters.
SliceFrom(s, n) == SubSeq(s, n + 1, Len(s))

(***************************************************************************)
(* JSON.parse, for the JSON subset the model's texts use: objects, arrays, *)
(* strings with the escapes \" \\ \/ \n \r \t, integers, true/false/null,  *)
(* white space between tokens.  A parsed value is a record                 *)
(*   [t, s, keys, kids]: t the type; s the string or the number's text;    *)
(*   kids the elements of an array or the values of an object, keys the    *)
(*   object's keys in order.                                               *)
(***************************************************************************)

JAtom(t, lexeme) == [t |-> t, s |-> lexeme, keys |-> <<>>, kids |-> <<>>]

JUndefined == JAtom("undefined", "")

JString(str) == JAtom("string", str)

JArray(elems) == [t |-> "array", s |-> "", keys |-> <<>>, kids |-> elems]

JObject(keys, vals) == [t |-> "object", s |-> "", keys |-> keys, kids |-> vals]

\* A parse step's result: ok, the value, and the position after it.
JFail == [ok |-> FALSE, val |-> JUndefined, pos |-> 0]

JOk(v, p) == [ok |-> TRUE, val |-> v, pos |-> p]

IsJsonWs(c) == c \in {" ", "\t", "\n", "\r"}

IsDigit(c) == c \in {"0", "1", "2", "3", "4", "5", "6", "7", "8", "9"}

\* The first position at or after i that holds no white space (Len(s)+1 at the end).
SkipWs(s, i) ==
    CHOOSE j \in i..(Len(s) + 1) :
        /\ j = Len(s) + 1 \/ ~IsJsonWs(CharAt(s, j))
        /\ \A k \in i..(j - 1) : IsJsonWs(CharAt(s, k))

Unescape(e) ==
    CASE e = "n" -> "\n"
      [] e = "r" -> "\r"
      [] e = "t" -> "\t"
      [] OTHER -> e

RECURSIVE ScanString(_, _, _)
\* Reads a string's characters from position j (after the opening quote).
ScanString(s, j, acc) ==
    IF j > Len(s) THEN JFail
    ELSE LET c == CharAt(s, j) IN
         IF c = "\"" THEN JOk(JString(acc), j + 1)
         ELSE IF c = "\\"
              THEN IF j + 1 <= Len(s) /\ CharAt(s, j + 1) \in {"\"", "\\", "/", "n", "r", "t"}
                   THEN ScanString(s, j + 2, acc \o Unescape(CharAt(s, j + 1)))
                   ELSE JFail
         ELSE IF c \in {"\n", "\r", "\t"} THEN JFail
         ELSE ScanString(s, j + 1, acc \o c)

\* The end of the run of digits starting at i (i - 1 when there is none).
DigitsEnd(s, i) ==
    CHOOSE e \in (i - 1)..Len(s) :
        /\ e = Len(s) \/ ~IsDigit(CharAt(s, e + 1))
        /\ \A k \in i..e : IsDigit(CharAt(s, k))

ScanNumber(s, i) ==
    LET d == IF CharAt(s, i) = "-" THEN i + 1 ELSE i
        e == DigitsEnd(s, d)
    IN  IF e < d THEN JFail
        ELSE IF CharAt(s, d) = "0" /\ e > d THEN JFail
        ELSE JOk(JAtom("number", SubSeq(s, i, e)), e + 1)

ScanLiteral(s, i) ==
    IF StartsWith(SliceFrom(s, i - 1), "true") THEN JOk(JAtom("boolean", "true"), i + 4)
    ELSE IF StartsWith(SliceFrom(s, i - 1), "false") THEN JOk(JAtom("boolean", "false"), i + 5)
    ELSE IF StartsWith(SliceFrom(s, i - 1), "null") THEN JOk(JAtom("null", "null"), i + 4)
    ELSE JFail

RECURSIVE ParseValue(_, _)
RECURSIVE ParseElements(_, _, _)
RECURSIVE ParseMembers(_, _, _, _)

\* The elements of an array from position i (after "[" or ","), given those read.
ParseElements(s, i, elems) ==
    LET r == ParseValue(s, i) IN
    IF ~r.ok THEN JFail
    ELSE LET j == SkipWs(s, r.pos) IN
         IF j > Len(s) THEN JFail
         ELSE IF CharAt(s, j) = "," THEN ParseElements(s, j + 1, Append(elems, r.val))
         ELSE IF CharAt(s, j) = "]" THEN JOk(JArray(Append(elems, r.val)), j + 1)
         ELSE JFail

\* The members of an object from position i (after "{" or ","), given those read.
ParseMembers(s, i, keys, vals) ==
    LET k == SkipWs(s, i) IN
    IF k > Len(s) \/ CharAt(s, k) # "\"" THEN JFail
    ELSE LET key == ScanString(s, k + 1, "") IN
         IF ~key.ok THEN JFail
         ELSE LET c == SkipWs(s, key.pos) IN
              IF c > Len(s) \/ CharAt(s, c) # ":" THEN JFail
              ELSE LET r == ParseValue(s, c + 1) IN
                   IF ~r.ok THEN JFail
                   ELSE LET j == SkipWs(s, r.pos) IN
                        IF j > Len(s) THEN JFail
                        ELSE IF CharAt(s, j) = ","
                             THEN ParseMembers(s, j + 1, Append(keys, key.val.s),
                                               Append(vals, r.val))
                        ELSE IF CharAt(s, j) = "}"
                             THEN JOk(JObject(Append(keys, key.val.s),
                                              Append(vals, r.val)), j + 1)
                        ELSE JFail

ParseValue(s, i) ==
    LET p == SkipWs(s, i) IN
    IF p > Len(s) THEN JFail
    ELSE LET c == CharAt(s, p) IN
         IF c = "{"
         THEN LET q == SkipWs(s, p + 1) IN
              IF q <= Len(s) /\ CharAt(s, q) = "}" THEN JOk(JObject(<<>>, <<>>), q + 1)
              ELSE ParseMembers(s, p + 1, <<>>, <<>>)
         ELSE IF c = "["
         THEN LET q == SkipWs(s, p + 1) IN
              IF q <= Len(s) /\ CharAt(s, q) = "]" THEN JOk(JArray(<<>>), q + 1)
              ELSE ParseElements(s, p + 1, <<>>)
         ELSE IF c = "\"" THEN ScanString(s, p + 1, "")
         ELSE IF c = "-" \/ IsDigit(c) THEN ScanNumber(s, p)
         ELSE ScanLiteral(s, p)

\* JSON.parse(s): [ok, val]; ok is FALSE where JSON.parse throws.
JsonParse(s) ==
    LET r == ParseValue(s, 1) IN
    IF r.ok /\ SkipWs(s, r.pos) = Len(s) + 1
    THEN [ok |-> TRUE, val |-> r.val]
    ELSE [ok |-> FALSE, val |-> JUndefined]

\* obj[name] of a parsed value: the last member of that name, else undefined.
GetField(v, name) ==
    IF v.t = "object" /\ \E i \in 1..Len(v.keys) : v.keys[i] = name
    THEN v.kids[SetMax({i \in 1..Len(v.keys) : v.keys[i] = name})]
    ELSE JUndefined

\* typeof v === 'object' && v !== null
IsObjectLike(v) == v.t \in {"object", "array"}

\* A _tryParseJson that trusts the braces: no parse failure is noticed.
TryParseJsonByBraces(text) ==
    LET trimmed == Trim(text) IN
    [ok |-> StartsWith(trimmed, "{") /\ EndsWith(trimmed, "}"), val |-> JsonParse(trimmed).val]

\* _tryParseJson(text): [ok, val]; ok is FALSE where the code returns null.
TryParseJson(text) ==
    LET trimmed == Trim(text) IN
    IF ~StartsWith(trimmed, "{") \/ ~EndsWith(trimmed, "}")
    THEN [ok |-> FALSE, val |-> JUndefined]
    ELSE JsonParse(trimmed)

\* _getStreamDeltaContent(data)
GetStreamDeltaContent(data) ==
    IF ~IsObjectLike(data) THEN ""
    ELSE LET choices == GetField(data, "choices") IN
         IF choices.t # "array" \/ Len(choices.kids) = 0 THEN ""
         ELSE LET choice0 == choices.kids[1]
                  delta == GetField(choice0, "delta")
                  message == GetField(choice0, "message")
              IN  IF ~IsObjectLike(choice0) THEN ""
                  ELSE IF IsObjectLike(delta) /\ GetField(delta, "content").t = "string"
                       THEN GetField(delta, "content").s
                  ELSE IF IsObjectLike(message) /\ GetField(message, "content").t = "string"
                       THEN GetField(message, "content").s
                  ELSE ""

(***************************************************************************)
(* Bounds of the model.                                                    *)
(***************************************************************************)

\* Events of the display (contentClear, contentUpdateStart, button click) in
\* one behaviour.
MaxEvents == 3

(***************************************************************************)
(* Inputs.                                                                 *)
(***************************************************************************)

\* A lookup: the query of the contentUpdateStart event, and the
\* display.history.state it is shown under (optionsContext.modifierKeys and
\* sentence.text; the state also records the query it was made for).
Lookups ==
    {[query |-> q, state |-> [modifierKeys |-> k, query |-> q,
                              sentence |-> IF q = "neko" THEN "neko da" ELSE ""]] :
        q \in {"neko", "inu"}, k \in {{}, {"shift"}}}

\* What aiGetSettings may resolve to.
SettingsValues ==
    [mode : {"auto", "manual"}, apiUrl : {" ", "http://ai/v1"}]
        \cup {[mode |-> "auto", apiUrl |-> ""]}

\* Texts a network call may hand to onText or return.
Texts == {"cat", "{\"title\":\"A\"", "{\"title\":\"A\"}", "{oops}"}

\* Messages of the errors a network call or a settings fetch may throw.
MsgTimedOut == "AI request timed out"

MsgHttpError == "AI request failed (500): oops"

MsgNetworkError == "Failed to fetch"

MsgSettingsError == "aiGetSettings failed"

MsgNotConfigured == "AI API URL not configured"

FetchErrors == {MsgTimedOut, MsgHttpError, MsgNetworkError}

StatusThinking == "AI is thinking..."

StatusFailed == "AI request failed."

StatusSettingsUnavailable == "AI settings unavailable."

StatusClickToExplain == "Click AI to explain."

(***************************************************************************)
(* State.                                                                  *)
(***************************************************************************)
VARIABLES
    ai,            \* the DisplayAi object with the pane's DOM: requestId, settings
                   \* and pendingInput (<<>> is null, <<v>> a value), rootHidden,
                   \* buttonHidden, statusText, content
    historyState,  \* display.history.state
    ops,           \* the suspended async calls: one record per pending await
    events,        \* number of display events so far
    lookup,        \* the number of the latest contentClear / contentUpdateStart event
    act,           \* the handler or continuation that ran last, with its token
    writer,        \* per pane field, the event number of the lookup that wrote it last
    modeState,     \* the state of the latest lookup in the mode state machine
    response,      \* one network call: what the server answers
    call,          \* one network call: the state of _fetchCompletionStreaming
    probe,         \* one text as it accumulates, and what _tryParseJson made of it
    view           \* one final text, what _tryParseJson made of it, and the content
                   \* element after _setContentRendered

vars == <<ai, historyState, ops, events, lookup, act, writer, modeState, response, call, probe, view>>

lifecycleVars == <<ai, historyState, ops, events, lookup, act, writer, modeState>>

PaneFields == {"rootHidden", "buttonHidden", "statusText", "content"}

TextContent(text) == [rendered |-> FALSE, text |-> text, tree |-> JUndefined]

\* _setContentRendered(value): the content is the tree built from the parsed value.
RenderedContent(value) == [rendered |-> TRUE, text |-> "", tree |-> value]

\* document.createElement('div') with its className, textContent and children.
Element(className, textContent, children) ==
    [className |-> className, textContent |-> textContent, children |-> children]

\* typeof data[name] === 'string' ? data[name] : ''
StringField(data, name) ==
    LET v == GetField(data, name) IN IF v.t = "string" THEN v.s ELSE ""

\* Array.isArray(data.examples) ? data.examples : []
ExamplesOf(data) ==
    LET v == GetField(data, "examples") IN IF v.t = "array" THEN v.kids ELSE <<>>

\* String(value) of a value that is no object
StringOf(value) == IF value.t = "undefined" THEN "undefined" ELSE value.s

\* The header: the title node and, for a non-empty word, the badge.
Header(title, word) ==
    Element("ai-explanation-render-header", "",
        <<Element("ai-explanation-render-title",
                  IF Len(title) > 0 THEN title ELSE IF Len(word) > 0 THEN word ELSE "AI", <<>>)>>
        \o (IF Len(word) > 0 THEN <<Element("ai-explanation-render-badge", word, <<>>)>> ELSE <<>>))

\* addSection(sectionTitle, bodyText): the nodes it appends to the content.
AddSection(sectionTitle, bodyText) ==
    IF Len(Trim(bodyText)) = 0 THEN <<>>
    ELSE <<Element("ai-explanation-section", "",
               <<Element("ai-explanation-section-title", sectionTitle, <<>>),
                 Element("ai-explanation-section-body", bodyText, <<>>)>>)>>

\* One pass of the loop over the examples: the items it appends to the list.
ExampleItem(example) ==
    IF ~IsObjectLike(example) THEN <<>>
    ELSE LET text == StringField(example, "text")
             explain == StringField(example, "explain")
         IN  IF Len(text) = 0 /\ Len(explain) = 0 THEN <<>>
             ELSE <<Element("ai-explanation-example", "",
                        (IF Len(text) > 0
                         THEN <<Element("ai-explanation-example-text", text, <<>>)>> ELSE <<>>)
                        \o (IF Len(explain) > 0
                            THEN <<Element("ai-explanation-example-explain", explain, <<>>)>>
                            ELSE <<>>))>>

RECURSIVE ExampleItems(_)
ExampleItems(examples) ==
    IF examples = <<>> THEN <<>>
    ELSE ExampleItem(Head(examples)) \o ExampleItems(Tail(examples))

\* if (examples.length > 0) { ... }: the nodes it appends to the content.
ExamplesSection(examples) ==
    IF Len(examples) > 0
    THEN <<Element("ai-explanation-section", "",
               <<Element("ai-explanation-section-title", "Examples", <<>>),
                 Element("ai-explanation-examples", "", ExampleItems(examples))>>)>>
    ELSE <<>>

\* _setContentRendered(value): the content element's text and children.
Render(value) ==
    IF ~IsObjectLike(value)
    THEN [textContent |-> StringOf(value), children |-> <<>>]
    ELSE [textContent |-> "",
          children |-> <<Header(StringField(value, "title"), StringField(value, "word"))>>
                       \o AddSection("Meaning", StringField(value, "meaning"))
                       \o AddSection("In context", StringField(value, "meaning_in_context"))
                       \o AddSection("Usage", StringField(value, "usage"))
                       \o ExamplesSection(ExamplesOf(value))]

SetVisible(d, visible) == [d EXCEPT !.rootHidden = ~visible]

SetButtonVisible(d, visible) == [d EXCEPT !.buttonHidden = ~visible]

SetStatusText(d, value) == [d EXCEPT !.statusText = value]

SetContentText(d, value) == [d EXCEPT !.content = TextContent(value)]

SetContentRendered(d, value) == [d EXCEPT !.content = RenderedContent(value)]

\* _isShiftLookup()
IsShiftLookup(state) == "shift" \in state.modifierKeys

\* _getSentenceText()
GetSentenceText(state) == state.sentence

\* A token that is not advanced.
SameRequestId(id) == id

\* this._requestId += 1
NextRequestId(id) == id + 1

\* requestId !== this._requestId, negated
IsCurrent(d, token) == token = d.requestId

\* A client that treats every mode as automatic.
IsNeverManual(d) == FALSE

\* this._settings?.mode === 'manual'
IsManual(d) == d.settings # <<>> /\ d.settings[1].mode = "manual"

\* A suspended call: the function, the await it is at, the token it captured,
\* its arguments, and the number of the lookup it belongs to.
Op(fn, at, token, word, context, lk) ==
    [fn |-> fn, at |-> at, token |-> token, word |-> word, context |-> context,
     lookup |-> lk]

\* What a handler leaves behind: the object, the calls it suspended, the pane
\* fields it wrote, the mode state reached.
Outcome(d, spawned, written, mode) ==
    [ai |-> d, spawned |-> spawned, written |-> written, mode |-> mode]

\* _onContentClear
OnContentClear(d) ==
    LET d1 == [d EXCEPT !.requestId = NextRequestId(d.requestId), !.pendingInput = <<>>]
    IN  Outcome(SetContentText(SetStatusText(SetButtonVisible(SetVisible(d1, FALSE), FALSE), ""), ""),
                {}, PaneFields, "idle")

\* _requestExplain from the settings in hand to the network call: the URL check,
\* then fetch() is called and the function suspends; a missing URL throws and is
\* caught at the end of _requestExplain.  The token was checked just before.
ExplainWithSettings(d, token, s, word, context, lk, written) ==
    IF Len(Trim(s.apiUrl)) = 0
    THEN Outcome(SetContentText(SetStatusText(d, StatusFailed), MsgNotConfigured),
                 {}, written \cup {"statusText", "content"}, "failed")
    ELSE Outcome(d, {Op("requestExplain", "fetch", token, word, context, lk)},
                 written, "requesting")

\* _requestExplain up to its first suspension.
RequestExplain(d, word, context, lk, written) ==
    LET d1 == [d EXCEPT !.requestId = NextRequestId(d.requestId)]
        d2 == SetContentText(SetStatusText(SetVisible(d1, TRUE), StatusThinking), "")
        w2 == written \cup {"rootHidden", "statusText", "content"}
    IN  IF d.settings # <<>>
        THEN ExplainWithSettings(d2, d2.requestId, d.settings[1], word, context, lk, w2)
        ELSE Outcome(d2, {Op("requestExplain", "aiGetSettings", d2.requestId, word, context, lk)},
                     w2, "requesting")

\* _onContentUpdateStart up to the settings fetch.
OnContentUpdateStart(d, query, state, lk) ==
    LET d1 == [d EXCEPT !.requestId = NextRequestId(d.requestId), !.pendingInput = <<>>]
    IN  IF ~IsShiftLookup(state)
        THEN Outcome(SetVisible(d1, FALSE), {}, {"rootHidden"}, "idle")
        ELSE Outcome(d1, {Op("onContentUpdateStart", "aiGetSettings", d1.requestId, query, "", lk)},
                     {}, "settingsLoading")

\* _onContentUpdateStart after aiGetSettings resolved with s.
OnSettingsResolved(d, o, s, state, mode) ==
    IF ~IsCurrent(d, o.token) THEN Outcome(d, {}, {}, mode)
    ELSE LET word == o.word
             context == GetSentenceText(state)
             d1 == [d EXCEPT !.settings = <<s>>,
                             !.pendingInput = <<[word |-> word, context |-> context]>>]
             d2 == SetVisible(d1, TRUE)
         IN  IF IsManual(d2)
             THEN Outcome(SetContentText(SetStatusText(SetButtonVisible(d2, TRUE),
                                                       StatusClickToExplain), ""),
                          {}, PaneFields, "awaitingManualClick")
             ELSE RequestExplain(SetButtonVisible(d2, FALSE), word, context, o.lookup,
                                 {"rootHidden", "buttonHidden"})

\* A catch block that leaves the button as it is.
OnSettingsRejectedButtonKept(d, o, mode) ==
    LET d1 == [d EXCEPT !.settings = <<>>]
    IN  Outcome(SetContentText(SetStatusText(SetVisible(d1, TRUE), StatusSettingsUnavailable), ""),
                {}, PaneFields \ {"buttonHidden"},
                IF IsCurrent(d, o.token) THEN "settingsUnavailable" ELSE mode)

\* _onContentUpdateStart after aiGetSettings rejected: the catch block.
OnSettingsRejected(d, o, mode) ==
    LET d1 == [d EXCEPT !.settings = <<>>]
    IN  Outcome(SetContentText(SetStatusText(SetButtonVisible(SetVisible(d1, TRUE), FALSE),
                                             StatusSettingsUnavailable), ""),
                {}, PaneFields,
                IF IsCurrent(d, o.token) THEN "settingsUnavailable" ELSE mode)

\* A click handler with no gate.
OnButtonClickUngated(d, state, lk, mode) == RequestExplain(d, state.query, state.sentence, lk, {})

\* _onButtonClick
OnButtonClick(d, state, lk, mode) ==
    IF ~IsShiftLookup(state) THEN Outcome(d, {}, {}, mode)
    ELSE IF d.pendingInput = <<>> THEN Outcome(d, {}, {}, mode)
    ELSE RequestExplain(d, d.pendingInput[1].word, d.pendingInput[1].context, lk, {})

\* _requestExplain after its own aiGetSettings resolved with s.
OnExplainSettingsResolved(d, o, s, mode) ==
    IF ~IsCurrent(d, o.token) THEN Outcome(d, {}, {}, mode)
    ELSE ExplainWithSettings(d, o.token, s, o.word, o.context, o.lookup, {})

\* A catch block that starts the request over.
OnExplainErrorRetrying(d, o, message, mode) ==
    Outcome(d, {Op("requestExplain", "aiGetSettings", o.token, o.word, o.context, o.lookup)},
            {}, mode)

\* _requestExplain's catch block, for an error with the given message.
OnExplainError(d, o, message, mode) ==
    IF ~IsCurrent(d, o.token) THEN Outcome(d, {}, {}, mode)
    ELSE Outcome(SetContentText(SetStatusText(d, StatusFailed), message),
                 {}, {"statusText", "content"}, "failed")

\* An onText that keeps what is rendered until the next text that parses.
OnTextKeepingRendered(d, o, partial, mode) ==
    IF ~IsCurrent(d, o.token) THEN Outcome(d, {}, {}, mode)
    ELSE IF TryParseJson(partial).ok
         THEN Outcome(SetContentRendered(SetStatusText(d, ""), TryParseJson(partial).val),
                      {}, {"statusText", "content"}, "streaming")
    ELSE IF d.content.rendered THEN Outcome(d, {}, {}, "streaming")
    ELSE Outcome(SetContentText(d, partial), {}, {"content"}, "streaming")

\* The onText callback of _requestExplain.
OnText(d, o, partial, mode) ==
    IF ~IsCurrent(d, o.token) THEN Outcome(d, {}, {}, mode)
    ELSE LET d1 == SetContentText(d, partial)
             parsed == TryParseJson(partial)
         IN  IF parsed.ok
             THEN Outcome(SetContentRendered(SetStatusText(d1, ""), parsed.val),
                          {}, {"statusText", "content"}, "streaming")
             ELSE Outcome(d1, {}, {"content"}, "streaming")

\* A completion that writes nothing.
OnFetchResolvedSilent(d, o, resultText, mode) == Outcome(d, {}, {}, mode)

\* _requestExplain after _fetchCompletionStreaming returned resultText.
OnFetchResolved(d, o, resultText, mode) ==
    IF ~IsCurrent(d, o.token) THEN Outcome(d, {}, {}, mode)
    ELSE LET parsed == TryParseJson(resultText)
             d1 == SetStatusText(d, "")
         IN  IF parsed.ok
             THEN Outcome(SetContentRendered(d1, parsed.val), {}, {"statusText", "content"}, "rendered")
             ELSE Outcome(SetContentText(d1, resultText), {}, {"statusText", "content"}, "rawFallback")

(***************************************************************************)
(* The streaming completion client, _fetchCompletionStreaming.             *)
(*                                                                         *)
(* A response body is a string of bytes.  An ASCII byte is written as its  *)
(* character; the two bytes 0xC3 0xA9 of the UTF-8 encoding of U+00E9 are  *)
(* written "<" and ">", the decoded character "@", and the replacement     *)
(* character U+FFFD "?".                                                   *)
(***************************************************************************)

\* Lines of a response body in one behaviour, the last possibly unterminated.
MaxLines == 3

\* Bytes of a chunk that ends neither at the end of a line nor of the body.
MaxChunk == 3

Utf8Lead == "<"

Utf8Cont == ">"

DecodedChar == "@"

ReplacementChar == "?"

\* The position of the first byte of a multi-byte character in bytes, 0 if none.
FirstNonAscii(bytes) ==
    CHOOSE i \in (1..Len(bytes)) \cup {0} :
        /\ i = 0 \/ CharAt(bytes, i) \in {Utf8Lead, Utf8Cont}
        /\ \A j \in 1..(IF i = 0 THEN Len(bytes) ELSE i - 1) :
              CharAt(bytes, j) \notin {Utf8Lead, Utf8Cont}

RECURSIVE DecodeBytes(_, _, _)
\* new TextDecoder('utf-8').decode(bytes, {stream: true}), given the bytes the
\* decoder holds from the chunk before: the text, and the bytes held now.
\* A run of ASCII bytes is taken at once.
DecodeBytes(held, bytes, out) ==
    IF bytes = "" THEN [text |-> out, held |-> held]
    ELSE LET b == CharAt(bytes, 1)
             rest == SliceFrom(bytes, 1)
             k == FirstNonAscii(bytes)
         IN  IF held # ""
             THEN IF b = Utf8Cont THEN DecodeBytes("", rest, out \o DecodedChar)
                  ELSE DecodeBytes("", bytes, out \o ReplacementChar)
             ELSE IF k = 0 THEN [text |-> out \o bytes, held |-> ""]
             ELSE IF k > 1 THEN DecodeBytes("", SliceFrom(bytes, k - 1), out \o SubSeq(bytes, 1, k - 1))
             ELSE IF b = Utf8Lead THEN DecodeBytes(b, rest, out)
             ELSE DecodeBytes("", rest, out \o ReplacementChar)

\* response.text(): the whole body decoded, a truncated character replaced.
DecodeAll(bytes) ==
    LET r == DecodeBytes("", bytes, "")
    IN  IF r.held = "" THEN r.text ELSE r.text \o ReplacementChar

\* The errors of a call.
AbortError == [name |-> "AbortError", message |-> "The user aborted a request."]

NetworkError == [name |-> "TypeError", message |-> MsgNetworkError]

SyntaxError == [name |-> "SyntaxError", message |-> "Unexpected token"]

ErrorOf(message) == [name |-> "Error", message |-> message]

MaxErrorExcerpt == 500

Timeout == 20000

\* `AI request failed (${response.status}): ${text.slice(0, 500)}`
HttpErrorMessage(status, text) ==
    "AI request failed (" \o ToString(status) \o "): "
        \o SubSeq(text, 1, IF Len(text) < MaxErrorExcerpt THEN Len(text) ELSE MaxErrorExcerpt)

\* A catch block that rethrows every error as it is.
CatchErrorRethrow(e) == e

\* The catch block of _fetchCompletionStreaming.
CatchError(e) == IF e.name = "AbortError" THEN ErrorOf(MsgTimedOut) ELSE e

\* buffer = decoder.decode(value, {stream: true}): the partial line is lost.
AppendChunkDropping(buffer, text) == text

\* buffer = buffer.trim() + decoder.decode(value, {stream: true})
AppendChunkTrimming(buffer, text) == Trim(buffer) \o text

\* buffer += decoder.decode(value, {stream: true})
AppendChunk(buffer, text) == buffer \o text

\* A client that knows no sentinel.
IsNeverSentinel(dataStr) == FALSE

\* dataStr === '[DONE]'
IsDoneSentinel(dataStr) == dataStr = "[DONE]"

\* The state of the line loop: the buffer, the accumulated text, the onText
\* calls so far, whether the function returned (at the sentinel) or threw.
LoopState(buffer, result, onText, returned, threw) ==
    [buffer |-> buffer, result |-> result, onText |-> onText,
     returned |-> returned, threw |-> threw]

RECURSIVE ProcessLines(_, _, _)

\* JSON.parse(dataStr) threw and nothing caught it.
AbortOnMalformedLine(rest, result, onText) == LoopState(rest, result, onText, FALSE, TRUE)

\* JSON.parse(dataStr) threw: catch { continue; }
OnMalformedLine(rest, result, onText) == ProcessLines(rest, result, onText)

\* A sentinel that ends the call without telling the caller.
OnSentinelSilent(rest, result, onText) == LoopState(rest, result, onText, TRUE, FALSE)

\* dataStr === '[DONE]': onText(result); return result
OnSentinel(rest, result, onText) == LoopState(rest, result, Append(onText, result), TRUE, FALSE)

\* The inner loop: every complete line of the buffer, in order.
ProcessLines(buffer, result, onText) ==
    LET lineEnd == IndexOf(buffer, "\n") IN
    IF lineEnd = 0 THEN LoopState(buffer, result, onText, FALSE, FALSE)
    ELSE LET line == TrimEnd(SubSeq(buffer, 1, lineEnd - 1))
             rest == SliceFrom(buffer, lineEnd)
             dataStr == Trim(SliceFrom(line, 5))
             data == JsonParse(dataStr)
             delta == GetStreamDeltaContent(data.val)
         IN  IF ~StartsWith(line, "data:") THEN ProcessLines(rest, result, onText)
             ELSE IF IsDoneSentinel(dataStr)
                  THEN OnSentinel(rest, result, onText)
             ELSE IF ~data.ok THEN OnMalformedLine(rest, result, onText)
             ELSE IF Len(delta) > 0
                  THEN ProcessLines(rest, result \o delta, Append(onText, result \o delta))
             ELSE ProcessLines(rest, result, onText)

\* A final text that is the accumulated text, whatever the buffer holds.
FinalTextResultOnly(result, buffer) == result

\* result.length > 0 ? result : buffer.trim()
FinalText(result, buffer) == IF Len(result) > 0 THEN result ELSE Trim(buffer)

\* The lines a body is made of, each with what it is: a valid line carrying a
\* delta, a malformed data line, the sentinel, or a line that is no data line.
DeltaLine ==
    [bytes |-> "data: {\"choices\":[{\"delta\":{\"content\":\"{}\"}}]}",
     kind |-> "delta", delta |-> "{}"]

MessageLine ==
    [bytes |-> "data:{\"choices\":[{\"message\":{\"content\":\"<>\"}}]}\r",
     kind |-> "delta", delta |-> "@"]

MalformedLine == [bytes |-> "data: not-json", kind |-> "malformed", delta |-> ""]

DoneLine == [bytes |-> "data: [DONE]", kind |-> "done", delta |-> ""]

BlankLine == [bytes |-> "", kind |-> "other", delta |-> ""]

LineKinds == {DeltaLine, MessageLine, MalformedLine, DoneLine, BlankLine}

\* A completion answered as one JSON body, no event stream: its text, the
\* string at choices[0].message.content, and the body as a line.
JsonBodyText == "{\"choices\":[{\"message\":{\"content\":\"{}\"}}]}"

JsonBodyContent == "{}"

JsonBodyLine == [bytes |-> JsonBodyText, kind |-> "other", delta |-> ""]

\* The JSON body, ended by a newline or not.
JsonBodies ==
    {[lines |-> <<JsonBodyLine>>, tail |-> ""], [lines |-> <<>>, tail |-> JsonBodyText]}

\* A body of plain text after an empty line: no event stream, and white space
\* around the text.
PlainText == " cat \r"

PlainBodies == {[lines |-> <<BlankLine>>, tail |-> PlainText]}

\* The unterminated last line of a body.
UnterminatedLine == "data: [DO"

RECURSIVE BodyOf(_, _)
\* The bytes of a body: its lines, each ended by a newline, then its tail.
BodyOf(lines, tail) ==
    IF lines = <<>> THEN tail
    ELSE Head(lines).bytes \o "\n" \o BodyOf(Tail(lines), tail)

BodiesOfLength(n) ==
    [lines : [1..n -> LineKinds], tail : {""}]
    \cup (IF n = 0 THEN {} ELSE [lines : [1..(n - 1) -> LineKinds], tail : {UnterminatedLine}])

Responses ==
    {[status |-> st, hasBody |-> hb, lines |-> b.lines, tail |-> b.tail,
      body |-> BodyOf(b.lines, b.tail)] :
        st \in {200}, hb \in {TRUE}, b \in UNION {BodiesOfLength(n) : n \in 0..MaxLines}}
    \cup
    {[status |-> st, hasBody |-> hb, lines |-> b.lines, tail |-> b.tail,
      body |-> BodyOf(b.lines, b.tail)] :
        st \in {200, 500}, hb \in BOOLEAN, b \in BodiesOfLength(1)}
    \cup
    {[status |-> st, hasBody |-> hb, lines |-> b.lines, tail |-> b.tail,
      body |-> BodyOf(b.lines, b.tail)] :
        st \in {200}, hb \in BOOLEAN, b \in JsonBodies \cup PlainBodies}

NoResponse == [status |-> 0, hasBody |-> FALSE, lines |-> <<>>, tail |-> "", body |-> ""]

\* The state of a call: where it is suspended (pc), the timer of
\* setTimeout(() => controller.abort(), 20000), the bytes read, the decoder's
\* held bytes, buffer and result, the onText calls made, the value returned
\* or the error thrown (<<>>: none), what ended it, and where the chunk began
\* whose lines made it return.
NoCall ==
    [pc |-> "none", timer |-> FALSE, pos |-> 0, held |-> "", buffer |-> "",
     result |-> "", onText |-> <<>>, returned |-> <<>>, thrown |-> <<>>,
     cause |-> "none", from |-> 0]

\* fetch() was called; the function is suspended at it.
StartCall == [NoCall EXCEPT !.pc = "fetch", !.timer = TRUE]

Pending(c) == c.pc \in {"fetch", "errorText", "bodyText", "read"}

\* return value, through finally { clearTimeout(timeout) }
Return(c, value, cause) ==
    [c EXCEPT !.pc = "returned", !.returned = <<value>>, !.timer = FALSE, !.cause = cause]

\* throw e, through the catch block and finally { clearTimeout(timeout) }
Throw(c, e, cause) ==
    [c EXCEPT !.pc = "thrown", !.thrown = <<CatchError(e)>>, !.timer = FALSE, !.cause = cause]

\* No final text is at hand and the content element is empty.
NoView == [text |-> "", parsed |-> <<>>, rendered |-> FALSE, textContent |-> "", children |-> <<>>]

\* No text is being accumulated.
NoProbe == [doc |-> [text |-> "", complete |-> {}, value |-> JUndefined], len |-> 0, result |-> <<>>]

\* The function is called and fetch() is pending.
InitStream ==
    /\ ai \in [requestId : {0}, settings : {<<>>}, pendingInput : {<<>>},
               rootHidden : {TRUE}, buttonHidden : {TRUE},
               statusText : {""}, content : {TextContent("")}]
    /\ historyState = [modifierKeys |-> {}, query |-> "", sentence |-> ""]
    /\ ops = {}
    /\ events = 0
    /\ lookup = 0
    /\ act = [name |-> "prepare", token |-> 0, text |-> ""]
    /\ writer = [f \in PaneFields |-> 0]
    /\ modeState = "idle"
    /\ response \in Responses
    /\ call = StartCall
    /\ probe = NoProbe
    /\ view = NoView

\* fetch() resolves with the response.
FetchResponds ==
    /\ call.pc = "fetch"
    /\ call' = [call EXCEPT !.pc = IF response.status \notin 200..299 THEN "errorText"
                                   ELSE IF ~response.hasBody THEN "bodyText"
                                   ELSE "read"]
    /\ UNCHANGED <<response, lifecycleVars, probe, view>>

\* The 20-second timer fires while an await is pending: controller.abort()
\* rejects it with an AbortError.
TimerFires ==
    /\ call.timer /\ Pending(call)
    /\ call' = Throw(call, AbortError, "timeout")
    /\ UNCHANGED <<response, lifecycleVars, probe, view>>

\* The transport fails while an await is pending.
TransportFails ==
    /\ Pending(call)
    /\ call' = Throw(call, NetworkError, "network")
    /\ UNCHANGED <<response, lifecycleVars, probe, view>>

\* !response.ok: the body is read and the HTTP error thrown.
ErrorTextRead ==
    /\ call.pc = "errorText"
    /\ call' = Throw(call, ErrorOf(HttpErrorMessage(response.status, DecodeAll(response.body))),
                     "http")
    /\ UNCHANGED <<response, lifecycleVars, probe, view>>

\* response.body === null: the whole body is the text.
BodyTextRead ==
    /\ call.pc = "bodyText"
    /\ LET data == DecodeAll(response.body)
       IN  call' = Return([call EXCEPT !.onText = Append(call.onText, data)], data, "body")
    /\ UNCHANGED <<response, lifecycleVars, probe, view>>

\* The lengths of the chunk the transport may deliver at pos: any length up to
\* MaxChunk, and any length that ends the chunk with a line or with the body.
ChunkLengths(body, pos) ==
    {n \in 1..(Len(body) - pos) :
        n <= MaxChunk \/ pos + n = Len(body) \/ CharAt(body, pos + n) = "\n"}

\* reader.read() resolves with the next n bytes, and the line loop runs.
ReadChunk ==
    /\ call.pc = "read"
    /\ \E n \in ChunkLengths(response.body, call.pos) :
        LET value == SubSeq(response.body, call.pos + 1, call.pos + n)
            decoded == DecodeBytes(call.held, value, "")
            loop == ProcessLines(AppendChunk(call.buffer, decoded.text), call.result, call.onText)
            c1 == [call EXCEPT !.pos = call.pos + n, !.held = decoded.held,
                               !.buffer = loop.buffer, !.result = loop.result,
                               !.onText = loop.onText]
        IN  call' = IF loop.threw THEN Throw(c1, SyntaxError, "parse")
                    ELSE IF loop.returned
                         THEN Return([c1 EXCEPT !.from = call.pos], loop.result, "sentinel")
                    ELSE c1
    /\ UNCHANGED <<response, lifecycleVars, probe, view>>

\* reader.read() resolves with done: the stream ended without a sentinel.
ReadDone ==
    /\ call.pc = "read"
    /\ call.pos = Len(response.body)
    /\ LET final == FinalText(call.result, call.buffer)
       IN  call' = Return([call EXCEPT !.onText = Append(call.onText, final)], final, "end")
    /\ UNCHANGED <<response, lifecycleVars, probe, view>>

NextStream ==
    \/ FetchResponds
    \/ TimerFires
    \/ TransportFails
    \/ ErrorTextRead
    \/ BodyTextRead
    \/ ReadChunk
    \/ ReadDone

SpecStream == InitStream /\ [][NextStream]_vars

(***************************************************************************)
(* _tryParseJson on a text that accumulates character by character.        *)
(*                                                                         *)
(* A document is the text of a JSON object, written out with the lengths   *)
(* at which its prefix is a complete object (white space aside) and the    *)
(* value it denotes.                                                       *)
(***************************************************************************)
Documents ==
    {[text |-> "{\"title\":\"A\"}", complete |-> {13},
      value |-> JObject(<<"title">>, <<JString("A")>>)],
     [text |-> "{\"a\":{\"b\":1}}", complete |-> {13},
      value |-> JObject(<<"a">>, <<JObject(<<"b">>, <<JAtom("number", "1")>>)>>)],
     [text |-> " {\"t\":\"}\"} ", complete |-> {10, 11},
      value |-> JObject(<<"t">>, <<JString("}")>>)],
     [text |-> "{\"e\":[{\"x\":true},{}]}", complete |-> {21},
      value |-> JObject(<<"e">>, <<JArray(<<JObject(<<"x">>, <<JAtom("boolean", "true")>>),
                                            JObject(<<>>, <<>>)>>)>>)],
     [text |-> "{\"s\":\"a\\\"}\"}", complete |-> {12},
      value |-> JObject(<<"s">>, <<JString("a\"}")>>)],
     [text |-> "{}\n ", complete |-> {2, 3, 4},
      value |-> JObject(<<>>, <<>>)]}

\* The text accumulated so far.
ProbeText == SubSeq(probe.doc.text, 1, probe.len)

InitParse ==
    /\ ai \in [requestId : {0}, settings : {<<>>}, pendingInput : {<<>>},
               rootHidden : {TRUE}, buttonHidden : {TRUE},
               statusText : {""}, content : {TextContent("")}]
    /\ historyState = [modifierKeys |-> {}, query |-> "", sentence |-> ""]
    /\ ops = {}
    /\ events = 0
    /\ lookup = 0
    /\ act = [name |-> "prepare", token |-> 0, text |-> ""]
    /\ writer = [f \in PaneFields |-> 0]
    /\ modeState = "idle"
    /\ response = NoResponse
    /\ call = NoCall
    /\ probe \in [doc : Documents, len : {0}, result : {<<>>}]
    /\ view = NoView

\* The text grows by its next character.
Accumulate ==
    /\ probe.len < Len(probe.doc.text)
    /\ probe' = [probe EXCEPT !.len = probe.len + 1, !.result = <<>>]
    /\ UNCHANGED <<response, call, lifecycleVars, view>>

\* _tryParseJson(text) is called on the text so far.
TryParse ==
    /\ probe.result = <<>>
    /\ probe' = [probe EXCEPT !.result = <<TryParseJson(ProbeText)>>]
    /\ UNCHANGED <<response, call, lifecycleVars, view>>

NextParse ==
    \/ Accumulate
    \/ TryParse

SpecParse == InitParse /\ [][NextParse]_vars

(***************************************************************************)
(* _setContentRendered on the value of a final text.                       *)
(*                                                                         *)
(* The final texts are objects with a few of the string fields and with an *)
(* examples member that is missing, no array, or an array of up to         *)
(* MaxExamples elements.                                                   *)
(***************************************************************************)
MaxExamples == 2

\* The elements an examples array is made of: both strings, one of them, both
\* empty, an empty object, a string, null.
ExampleTexts ==
    {"{\"text\":\"t\",\"explain\":\"e\"}", "{\"text\":\"t\"}", "{\"explain\":\"e\"}",
     "{\"text\":\"\",\"explain\":\"\"}", "{}", "\"t\"", "null"}

RECURSIVE ArrayTexts(_)
\* The texts of n array elements, comma-separated.
ArrayTexts(n) ==
    IF n = 0 THEN {""}
    ELSE IF n = 1 THEN ExampleTexts
    ELSE {a \o "," \o e : a \in ArrayTexts(n - 1), e \in ExampleTexts}

ExamplesMembers ==
    {"", ",\"examples\":\"t\""}
    \cup {",\"examples\":[" \o a \o "]" : a \in UNION {ArrayTexts(n) : n \in 0..MaxExamples}}

FieldMembers == {"\"title\":\"A\"", "\"word\":\"w\",\"meaning\":\" \"", "\"meaning\":\"m\",\"usage\":\"u\""}

FinalTexts == {"{" \o f \o e \o "}" : f \in FieldMembers, e \in ExamplesMembers}

InitRender ==
    /\ ai \in [requestId : {0}, settings : {<<>>}, pendingInput : {<<>>},
               rootHidden : {TRUE}, buttonHidden : {TRUE},
               statusText : {""}, content : {TextContent("")}]
    /\ historyState = [modifierKeys |-> {}, query |-> "", sentence |-> ""]
    /\ ops = {}
    /\ events = 0
    /\ lookup = 0
    /\ act = [name |-> "prepare", token |-> 0, text |-> ""]
    /\ writer = [f \in PaneFields |-> 0]
    /\ modeState = "idle"
    /\ response = NoResponse
    /\ call = NoCall
    /\ probe = NoProbe
    /\ view \in [text : FinalTexts, parsed : {<<>>}, rendered : {FALSE},
                 textContent : {""}, children : {<<>>}]

\* const parsed = this._tryParseJson(resultText)
ParseFinal ==
    /\ view.parsed = <<>>
    /\ view' = [view EXCEPT !.parsed = <<TryParseJson(view.text)>>]
    /\ UNCHANGED <<response, call, lifecycleVars, probe>>

\* if (parsed !== null) { this._setContentRendered(parsed) }
RenderParsed ==
    /\ view.parsed # <<>>
    /\ view.parsed[1].ok
    /\ ~view.rendered
    /\ view' = [view EXCEPT !.rendered = TRUE,
                            !.textContent = Render(view.parsed[1].val).textContent,
                            !.children = Render(view.parsed[1].val).children]
    /\ UNCHANGED <<response, call, lifecycleVars, probe>>

NextRender ==
    \/ ParseFinal
    \/ RenderParsed

SpecRender == InitRender /\ [][NextRender]_vars

(***************************************************************************)
(* The state machine.                                                      *)
(***************************************************************************)

\* After construction and prepare(): no request yet, no lookup in the
\* history state, the pane hidden and empty.
Init ==
    /\ ai \in [requestId : {0}, settings : {<<>>}, pendingInput : {<<>>},
               rootHidden : {TRUE}, buttonHidden : BOOLEAN,
               statusText : {""}, content : {TextContent("")}]
    /\ historyState = [modifierKeys |-> {}, query |-> "", sentence |-> ""]
    /\ ops = {}
    /\ events = 0
    /\ lookup = 0
    /\ act = [name |-> "prepare", token |-> 0, text |-> ""]
    /\ writer = [f \in PaneFields |-> 0]
    /\ modeState = "idle"
    /\ response = NoResponse
    /\ call = NoCall
    /\ probe = NoProbe
    /\ view = NoView

\* The handler ran for the lookup numbered lk, ending the suspended call
\* `done` (a set: empty for an event) and leaving outcome r; text is the text
\* it was handed (a partial, a result; "" for none).
ApplyWith(r, done, lk, name, token, text) ==
    /\ ai' = r.ai
    /\ ops' = (ops \ done) \cup r.spawned
    /\ writer' = [f \in PaneFields |-> IF f \in r.written THEN lk ELSE writer[f]]
    /\ modeState' = r.mode
    /\ act' = [name |-> name, token |-> token, text |-> text]
    /\ UNCHANGED <<response, call, probe, view>>

Apply(r, done, lk, name, token) == ApplyWith(r, done, lk, name, token, "")

\* A contentClear that aborts the network calls in flight.
ContentClearAborting ==
    /\ events < MaxEvents
    /\ events' = events + 1
    /\ lookup' = events + 1
    /\ Apply(OnContentClear(ai), {o \in ops : o.at = "fetch"}, events + 1, "ContentClear",
             NextRequestId(ai.requestId))
    /\ UNCHANGED historyState

ContentClear ==
    /\ events < MaxEvents
    /\ events' = events + 1
    /\ lookup' = events + 1
    /\ Apply(OnContentClear(ai), {}, events + 1, "ContentClear", NextRequestId(ai.requestId))
    /\ UNCHANGED historyState

ContentUpdateStart ==
    /\ events < MaxEvents
    /\ \E l \in Lookups :
        /\ historyState' = l.state
        /\ events' = events + 1
        /\ lookup' = events + 1
        /\ Apply(OnContentUpdateStart(ai, l.query, l.state, events + 1), {}, events + 1,
                 "ContentUpdateStart", NextRequestId(ai.requestId))

ButtonClick ==
    /\ events < MaxEvents
    /\ events' = events + 1
    /\ Apply(OnButtonClick(ai, historyState, lookup, modeState), {}, lookup,
             "ButtonClick", ai.requestId)
    /\ UNCHANGED <<historyState, lookup>>

SettingsResolved ==
    \E o \in ops, s \in SettingsValues :
        /\ o.fn = "onContentUpdateStart"
        /\ Apply(OnSettingsResolved(ai, o, s, historyState, modeState), {o}, o.lookup,
                 "SettingsResolved", o.token)
        /\ UNCHANGED <<historyState, events, lookup>>

SettingsRejected ==
    \E o \in ops :
        /\ o.fn = "onContentUpdateStart"
        /\ Apply(OnSettingsRejected(ai, o, modeState), {o}, o.lookup,
                 "SettingsRejected", o.token)
        /\ UNCHANGED <<historyState, events, lookup>>

ExplainSettingsResolved ==
    \E o \in ops, s \in SettingsValues :
        /\ o.fn = "requestExplain" /\ o.at = "aiGetSettings"
        /\ Apply(OnExplainSettingsResolved(ai, o, s, modeState), {o}, o.lookup,
                 "ExplainSettingsResolved", o.token)
        /\ UNCHANGED <<historyState, events, lookup>>

ExplainSettingsRejected ==
    \E o \in ops :
        /\ o.fn = "requestExplain" /\ o.at = "aiGetSettings"
        /\ Apply(OnExplainError(ai, o, MsgSettingsError, modeState), {o}, o.lookup,
                 "ExplainSettingsRejected", o.token)
        /\ UNCHANGED <<historyState, events, lookup>>

\* The network call hands a partial text to onText and goes on.
StreamPartial ==
    \E o \in ops, partial \in Texts :
        /\ o.at = "fetch"
        /\ ApplyWith(OnText(ai, o, partial, modeState), {}, o.lookup, "StreamPartial", o.token,
                     partial)
        /\ UNCHANGED <<historyState, events, lookup>>

FetchResolved ==
    \E o \in ops, resultText \in Texts :
        /\ o.at = "fetch"
        /\ ApplyWith(OnFetchResolved(ai, o, resultText, modeState), {o}, o.lookup,
                     "FetchResolved", o.token, resultText)
        /\ UNCHANGED <<historyState, events, lookup>>

FetchRejected ==
    \E o \in ops, message \in FetchErrors :
        /\ o.at = "fetch"
        /\ Apply(OnExplainError(ai, o, message, modeState), {o}, o.lookup,
                 "FetchRejected", o.token)
        /\ UNCHANGED <<historyState, events, lookup>>

Next ==
    \/ ContentClear
    \/ ContentUpdateStart
    \/ ButtonClick
    \/ SettingsResolved
    \/ SettingsRejected
    \/ ExplainSettingsResolved
    \/ ExplainSettingsRejected
    \/ StreamPartial
    \/ FetchResolved
    \/ FetchRejected

Spec == Init /\ [][Next]_vars

\* Every network call ends: with its response, with an error, or at the latest
\* when its own 20-second timer aborts it.
SpecLive == Init /\ [][Next]_vars /\ WF_vars(FetchResolved \/ FetchRejected)

(***************************************************************************)
(* Vocabulary of the properties.                                           *)
(***************************************************************************)

\* The steps that resume a suspended call; the others are display events.
Continuations ==
    {"SettingsResolved", "SettingsRejected", "ExplainSettingsResolved",
     "ExplainSettingsRejected", "StreamPartial", "FetchResolved", "FetchRejected"}

\* What the user can see of the pane.
Pane(d) == [rootHidden |-> d.rootHidden, buttonHidden |-> d.buttonHidden,
            statusText |-> d.statusText, content |-> d.content]

\* No call is suspended: every in-flight operation has finished.
Quiescent == ops = {}

\* The network calls (pending fetches) a step starts.
StartedCalls == {o \in ops' \ ops : o.at = "fetch"}

(***************************************************************************)
(* C1.  Once every in-flight operation has finished, the visible pane is   *)
(* the one produced by the latest lookup alone: its visibility was written *)
(* last by the latest lookup (or clear), and when it is shown so were its  *)
(* button, status and content.  The code breaks this: the catch block of   *)
(* _onContentUpdateStart writes the pane for a superseded lookup.          *)
(***************************************************************************)
C1_PaneIsLatestLookups ==
    Quiescent =>
        /\ writer["rootHidden"] = lookup
        /\ ~ai.rootHidden => \A f \in PaneFields : writer[f] = lookup

(***************************************************************************)
(* C2.  A continuation whose captured token differs from the current token *)
(* changes neither the pane nor the cached settings.  The code breaks      *)
(* this: a rejected settings fetch is handled without a token check.       *)
(***************************************************************************)
C2_StaleContinuationsWriteNothing ==
    [][(act'.name \in Continuations /\ act'.token # ai.requestId)
         => (Pane(ai') = Pane(ai) /\ ai'.settings = ai.settings /\ writer' = writer)]_vars

(***************************************************************************)
(* C3 as stated.  Manual: while the latest lookup's settings have resolved *)
(* to "manual" and no click was handled, no network call of that lookup is *)
(* pending and only a button click starts one.  Auto: the step in which    *)
(* the settings of the current lookup resolve to "auto" with a non-empty   *)
(* URL starts the network call.                                            *)
(***************************************************************************)
C3_ManualGate ==
    /\ modeState = "awaitingManualClick"
         => /\ \A o \in ops : o.lookup = lookup => o.at # "fetch"
            /\ StartedCalls # {} => act'.name = "ButtonClick"
    /\ (act'.name = "SettingsResolved" /\ act'.token = ai.requestId
            /\ ai'.settings[1].mode = "manual")
         => (StartedCalls = {} /\ modeState' = "awaitingManualClick")
    /\ (act'.name = "ButtonClick" /\ StartedCalls # {})
         => /\ modeState \notin {"idle", "settingsLoading", "settingsUnavailable"}
            /\ \A o \in StartedCalls : o.lookup = lookup /\ o.token = ai'.requestId

C3_ModeGatingAsStated ==
    [][/\ C3_ManualGate
       /\ (act'.name = "SettingsResolved" /\ act'.token = ai.requestId
              /\ ai'.settings[1].mode = "auto" /\ ai'.settings[1].apiUrl # "")
            => \E o \in StartedCalls : o.token = ai'.requestId /\ o.lookup = lookup]_vars

(***************************************************************************)
(* C3 amended.  The same, the auto case for a URL that is non-empty after  *)
(* trimming white space.                                                   *)
(***************************************************************************)
C3_ModeGating ==
    [][/\ C3_ManualGate
       /\ (act'.name = "SettingsResolved" /\ act'.token = ai.requestId
              /\ ai'.settings[1].mode = "auto" /\ Trim(ai'.settings[1].apiUrl) # "")
            => \E o \in StartedCalls : o.token = ai'.requestId /\ o.lookup = lookup]_vars

\* The call of a manual lookup started by a click, while the call of an earlier
\* lookup, started as its settings resolved to "auto", is still pending.
C3_Witness ==
    /\ act.name = "ButtonClick"
    /\ ai.settings # <<>> /\ ai.settings[1].mode = "manual"
    /\ \E o \in ops : o.at = "fetch" /\ o.lookup = lookup /\ o.token = ai.requestId
    /\ \E o \in ops : o.at = "fetch" /\ o.lookup < lookup /\ o.fn = "requestExplain"
    /\ events = 3

(***************************************************************************)
(* Vocabulary of the stream properties: what a body is made of, by the     *)
(* kinds its lines were built with.                                        *)
(***************************************************************************)
RECURSIVE ConcatDeltas(_)
\* The deltas of the lines, in order.
ConcatDeltas(lines) ==
    IF lines = <<>> THEN "" ELSE Head(lines).delta \o ConcatDeltas(Tail(lines))

RECURSIVE BytesOf(_)
\* The number of bytes of the lines with their newlines.
BytesOf(lines) ==
    IF lines = <<>> THEN 0 ELSE Len(Head(lines).bytes) + 1 + BytesOf(Tail(lines))

\* The index of the first sentinel line, 0 if the body has none.
FirstDone(lines) ==
    IF \E i \in 1..Len(lines) : lines[i].kind = "done"
    THEN SetMin({i \in 1..Len(lines) : lines[i].kind = "done"})
    ELSE 0

\* The position of the newline that completes the first sentinel line.
SentinelEnd(lines) == BytesOf(SubSeq(lines, 1, FirstDone(lines)))

\* The text accumulated when the first sentinel line is complete.
TextBeforeSentinel(lines) == ConcatDeltas(SubSeq(lines, 1, FirstDone(lines) - 1))

\* What the client returns for the body delivered in one chunk.
OneChunk(body) ==
    LET decoded == DecodeBytes("", body, "")
        loop == ProcessLines(AppendChunk("", decoded.text), "", <<>>)
    IN  IF loop.returned THEN loop.result ELSE FinalText(loop.result, loop.buffer)

Succeeded == call.pc = "returned" /\ call.cause \in {"sentinel", "end"}

(***************************************************************************)
(* C4.  Whatever the chunks a body was delivered in, the text the client   *)
(* returns, and the object parsed from it, are those returned for the body *)
(* delivered in one chunk.                                                 *)
(***************************************************************************)
C4_SplitInvariant ==
    Succeeded =>
        /\ call.returned = <<OneChunk(response.body)>>
        /\ TryParseJson(call.returned[1]) = TryParseJson(OneChunk(response.body))

\* A return at a sentinel whose line was cut: the last chunk began inside it,
\* after deltas delivered in earlier chunks.
C4_Witness ==
    /\ Succeeded
    /\ call.cause = "sentinel"
    /\ call.returned # <<"">>
    /\ call.from > SentinelEnd(response.lines) - Len(DoneLine.bytes) - 1
    /\ call.from < SentinelEnd(response.lines) - 1

(***************************************************************************)
(* C5.  The read that completes the first sentinel line makes the client   *)
(* call onText with the text accumulated before that line and return it,   *)
(* whatever follows the sentinel in the chunk or in the body; and the      *)
(* client takes no step after it returned.                                 *)
(***************************************************************************)
C5_SentinelShortCircuits ==
    [][/\ call.pc # "returned"
       /\ (/\ call.pc = "read"
           /\ FirstDone(response.lines) > 0
           /\ call.pos < SentinelEnd(response.lines)
           /\ call'.pos >= SentinelEnd(response.lines))
          => /\ call'.pc = "returned"
             /\ call'.returned = <<TextBeforeSentinel(response.lines)>>
             /\ call'.onText # <<>>
             /\ call'.onText[Len(call'.onText)] = TextBeforeSentinel(response.lines)]_vars

\* A return at the sentinel with text accumulated and bytes of the body unread.
C5_Witness ==
    /\ call.pc = "returned"
    /\ call.cause = "sentinel"
    /\ call.returned # <<"">>
    /\ call.pos < Len(response.body)

(***************************************************************************)
(* C6.  For a body whose lines before any sentinel include valid delta     *)
(* lines and malformed data lines, the client returns the concatenation of *)
(* the deltas of the valid lines in order; and no call ends with a parse   *)
(* error.                                                                  *)
(***************************************************************************)
MalformedAmongDeltas(lines) ==
    /\ \E i \in 1..Len(lines) : lines[i].kind = "malformed"
    /\ \E i \in 1..Len(lines) : lines[i].kind = "delta"
    /\ \A i \in 1..Len(lines) :
          lines[i].kind = "done" => \A j \in i..Len(lines) : lines[j].kind \in {"done", "other"}

C6_MalformedLinesSkipped ==
    /\ call.cause # "parse"
    /\ (call.pc = "thrown" => call.thrown[1].name # "SyntaxError")
    /\ (Succeeded /\ MalformedAmongDeltas(response.lines))
          => call.returned = <<ConcatDeltas(response.lines)>>

\* The client returned for a malformed line between two valid lines.
C6_Witness ==
    /\ Succeeded
    /\ Len(response.lines) = 3
    /\ response.lines[1].kind = "delta"
    /\ response.lines[2].kind = "malformed"
    /\ response.lines[3].kind = "delta"
    /\ response.lines[1] # response.lines[3]

(***************************************************************************)
(* C7.  A call ended by its timer fails with the error 'AI request timed   *)
(* out', and a call ended by anything else never does: a transport failure *)
(* is thrown as it came.                                                   *)
(***************************************************************************)
C7_TimeoutDistinct ==
    call.pc = "thrown" =>
        /\ call.cause = "timeout" <=> call.thrown = <<ErrorOf(MsgTimedOut)>>
        /\ call.cause = "timeout" <=> call.thrown[1].message = MsgTimedOut
        /\ call.cause = "network" => call.thrown = <<NetworkError>>

\* The timer fired while a read of the stream was outstanding.
C7_Witness ==
    /\ call.pc = "thrown"
    /\ call.cause = "timeout"
    /\ call.pos > 0
    /\ call.pos < Len(response.body)

(***************************************************************************)
(* C11.  When the server answers with one JSON body instead of an event    *)
(* stream, the text the client returns is the string at                    *)
(* choices[0].message.content of that body.  The code breaks this: it      *)
(* returns the body's text, or nothing when the body ends with a newline.  *)
(***************************************************************************)
IsJsonBody == response.status = 200 /\ DecodeAll(response.body) \in {JsonBodyText, JsonBodyText \o "\n"}

C11_FallbackReturnsMessageContent ==
    (call.pc = "returned" /\ IsJsonBody) => call.returned = <<JsonBodyContent>>

(***************************************************************************)
(* C12.  _tryParseJson returns null for every prefix of a JSON object text *)
(* that is not a complete object, and the object the text denotes once the *)
(* prefix is complete; a parse failure is a null result.                   *)
(***************************************************************************)
C12_PrefixSafety ==
    probe.result # <<>> =>
        /\ probe.result[1].ok <=> probe.len \in probe.doc.complete
        /\ probe.result[1].ok => probe.result[1].val = probe.doc.value

\* A proper prefix in braces that is no object (a brace inside a string, or
\* an inner object closed) was refused.
C12_Witness ==
    /\ probe.result # <<>>
    /\ ~probe.result[1].ok
    /\ probe.len < Len(probe.doc.text)
    /\ StartsWith(Trim(ProbeText), "{")
    /\ EndsWith(Trim(ProbeText), "}")

(***************************************************************************)
(* C13.  A settings fetch is started only by the step of a lookup event or *)
(* of a button click; a network call only by such a step or by the step in *)
(* which the settings fetch of the same lookup resolves, which it          *)
(* replaces; a step starts at most one of them; and a step that handles a  *)
(* failure (settings unavailable, missing URL, failed or timed-out call)   *)
(* starts nothing.                                                         *)
(***************************************************************************)
Started == ops' \ ops

Failures == {"SettingsRejected", "ExplainSettingsRejected", "FetchRejected"}

C13_NoAutomaticRetries ==
    [][/\ Cardinality(Started) <= 1
       /\ \A o \in Started :
            \/ events' = events + 1 /\ act'.name \in {"ContentUpdateStart", "ButtonClick"}
            \/ /\ act'.name \in {"SettingsResolved", "ExplainSettingsResolved"}
               /\ o.at = "fetch"
               /\ \E p \in ops \ ops' : p.at = "aiGetSettings" /\ p.lookup = o.lookup
       /\ act'.name \in Failures => Started = {}
       /\ (modeState' \in {"failed", "settingsUnavailable"} /\ modeState' # modeState)
            => Started = {}]_vars

\* The current request's call failed and nothing is in flight.
C13_Witness ==
    /\ act.name = "FetchRejected"
    /\ act.token = ai.requestId
    /\ modeState = "failed"
    /\ ops = {}

(***************************************************************************)
(* C14.  A pending call is live when some way it can complete writes the   *)
(* pane or the cached settings.  At most one pending call is live, and a   *)
(* pending call is live exactly when its captured token is the current     *)
(* token.  The code breaks this: a pending settings fetch of a superseded  *)
(* lookup writes when it fails.                                            *)
(***************************************************************************)
\* What the completions of the pending call o can leave behind.
Completions(o) ==
    IF o.fn = "onContentUpdateStart"
    THEN {OnSettingsResolved(ai, o, st, historyState, modeState) : st \in SettingsValues}
            \cup {OnSettingsRejected(ai, o, modeState)}
    ELSE IF o.at = "aiGetSettings"
    THEN {OnExplainSettingsResolved(ai, o, st, modeState) : st \in SettingsValues}
            \cup {OnExplainError(ai, o, MsgSettingsError, modeState)}
    ELSE {OnText(ai, o, t, modeState) : t \in Texts}
            \cup {OnFetchResolved(ai, o, t, modeState) : t \in Texts}
            \cup {OnExplainError(ai, o, m, modeState) : m \in FetchErrors}

Live(o) == \E r \in Completions(o) : r.written # {} \/ r.ai # ai

\* At most one pending call holds the current token.
C14_AtMostOneCurrentToken == Cardinality({o \in ops : o.token = ai.requestId}) <= 1

C14_AtMostOneLiveWriter ==
    /\ Cardinality({o \in ops : Live(o)}) <= 1
    /\ \A o \in ops : Live(o) <=> o.token = ai.requestId

(***************************************************************************)
(* C15.  The step of a lookup, a clear or a click ends no pending call: a  *)
(* network call in flight leaves only in the step of its own completion    *)
(* (its result, or its error: HTTP, transport or its own timeout), and a   *)
(* step ends at most one call.                                             *)
(***************************************************************************)
Ended == ops \ ops'

C15_CancellationIsSoft ==
    [][/\ events' # events => Ended = {}
       /\ Cardinality({o \in Ended : o.at = "fetch"}) <= 1
       /\ \A o \in Ended :
            o.at = "fetch" => /\ act'.name \in {"FetchResolved", "FetchRejected"}
                              /\ act'.token = o.token]_vars

\* A network call still in flight after a clear made its token stale.
C15_Witness ==
    /\ act.name = "ContentClear"
    /\ \E o \in ops : o.at = "fetch" /\ o.token < ai.requestId

(***************************************************************************)
(* C16.  A click handled while the latest lookup is a Shift lookup whose   *)
(* settings fetch resolved while it was current starts an explain request: *)
(* it takes a new token, and the call it suspends carries that lookup's    *)
(* word and context.  A click handled in any other state (latest lookup    *)
(* not Shift, settings loading or failed, content cleared) changes neither *)
(* the token, the pane, nor the calls in flight.                           *)
(***************************************************************************)
SettingsInHand == modeState \notin {"idle", "settingsLoading", "settingsUnavailable"}

C16_ClickFrame ==
    [][act'.name = "ButtonClick" =>
         IF IsShiftLookup(historyState) /\ SettingsInHand
         THEN /\ ai'.requestId = NextRequestId(ai.requestId)
              /\ ~ai'.rootHidden
              /\ \A o \in ops' \ ops :
                    /\ o.fn = "requestExplain" /\ o.token = ai'.requestId /\ o.lookup = lookup
                    /\ o.word = historyState.query /\ o.context = historyState.sentence
         ELSE ai' = ai /\ ops' = ops]_vars

\* A click that started a request for the latest lookup's word and sentence.
C16_Witness ==
    /\ act.name = "ButtonClick"
    /\ \E o \in ops : /\ o.token = ai.requestId /\ o.lookup = lookup
                       /\ o.word = historyState.query /\ o.context = "neko da"

(***************************************************************************)
(* C17.  While the client reads (no sentinel met), the text decoded from   *)
(* the bytes received so far is the lines consumed, each with its newline, *)
(* followed by the buffer, and the buffer holds no newline.                *)
(***************************************************************************)
\* The text decoded from the bytes received so far.
DecodedSoFar == DecodeBytes("", SubSeq(response.body, 1, call.pos), "").text

\* What of that text the consumed lines account for.
ConsumedSoFar == SubSeq(DecodedSoFar, 1, Len(DecodedSoFar) - Len(call.buffer))

C17_BufferConservation ==
    call.pc = "read" =>
        /\ Len(call.buffer) <= Len(DecodedSoFar)
        /\ ConsumedSoFar \o call.buffer = DecodedSoFar
        /\ ConsumedSoFar = "" \/ EndsWith(ConsumedSoFar, "\n")
        /\ IndexOf(call.buffer, "\n") = 0

\* Two lines were consumed and the chunk ended inside the third.
C17_Witness ==
    /\ call.pc = "read"
    /\ call.buffer # ""
    /\ Len(response.lines) = 3
    /\ call.pos > BytesOf(SubSeq(response.lines, 1, 2))
    /\ call.result # ""

(***************************************************************************)
(* C18 as stated.  When the stream ends with no sentinel met, the client   *)
(* calls onText one last time and returns the same value: the accumulated  *)
(* deltas if there are any, else the unterminated text the body ends with, *)
(* as it is.                                                               *)
(***************************************************************************)
\* The delta lines of a body.
DeltaLines(lines) == {i \in 1..Len(lines) : lines[i].delta # ""}

EndedWith(text) ==
    (call.pc = "returned" /\ call.cause = "end") =>
        /\ call.returned = <<text>>
        /\ Len(call.onText) = Cardinality(DeltaLines(response.lines)) + 1
        /\ call.onText[Len(call.onText)] = text

C18_StreamEndAsStated ==
    EndedWith(IF ConcatDeltas(response.lines) # "" THEN ConcatDeltas(response.lines)
              ELSE response.tail)

(***************************************************************************)
(* C18 amended.  The same, the unterminated text trimmed of the white      *)
(* space around it.                                                        *)
(***************************************************************************)
C18_StreamEnd ==
    EndedWith(IF ConcatDeltas(response.lines) # "" THEN ConcatDeltas(response.lines)
              ELSE Trim(response.tail))

\* The stream ended with no delta: an unterminated text was returned, trimmed.
C18_Witness ==
    /\ call.pc = "returned"
    /\ call.cause = "end"
    /\ call.result = ""
    /\ call.returned # <<"">>
    /\ call.returned # <<response.tail>>

(***************************************************************************)
(* C19.  After the current request was handed a partial or its final text, *)
(* the content of the pane is the rendering of the object that text        *)
(* denotes when it is the text of an object, and that text as it is when   *)
(* not: never what an earlier text left.                                   *)
(***************************************************************************)
\* The texts of Texts that are JSON objects, with the objects they denote.
ObjectTexts == {[text |-> "{\"title\":\"A\"}", value |-> JObject(<<"title">>, <<JString("A")>>)]}

ContentFor(text) ==
    IF \E t \in ObjectTexts : t.text = text
    THEN RenderedContent((CHOOSE t \in ObjectTexts : t.text = text).value)
    ELSE TextContent(text)

C19_ContentIsLatestText ==
    (act.name \in {"StreamPartial", "FetchResolved"} /\ act.token = ai.requestId)
        => ai.content = ContentFor(act.text)

\* A partial that is no object, shown as it is after an earlier partial of the
\* same request was rendered (which emptied the status).
C19_Witness ==
    /\ act.name = "StreamPartial"
    /\ act.token = ai.requestId
    /\ ~ai.content.rendered
    /\ ai.content.text = "{oops}"
    /\ ai.statusText = ""

(***************************************************************************)
(* C20.  Given that every network call ends, a request whose call is in    *)
(* flight under the current token leads to that request's terminal state,  *)
(* unless a later event takes the token: the status is no longer           *)
(* 'AI is thinking...', and the pane is the rendering of the final text    *)
(* (it is the text of an object), the final text as it is (it is not), or  *)
(* 'AI request failed.' with the error's message.                          *)
(***************************************************************************)
Tokens == 1..(2 * MaxEvents)

InFlight(t) == ai.requestId = t /\ \E o \in ops : o.at = "fetch" /\ o.token = t

Terminal(t) ==
    /\ ai.requestId = t
    /\ act.token = t
    /\ ai.statusText # StatusThinking
    /\ \/ /\ act.name = "FetchResolved"
          /\ modeState = (IF ai.content.rendered THEN "rendered" ELSE "rawFallback")
          /\ ai.statusText = ""
          /\ ai.content = ContentFor(act.text)
       \/ /\ act.name = "FetchRejected"
          /\ modeState = "failed"
          /\ ai.statusText = StatusFailed
          /\ ai.content \in {TextContent(m) : m \in FetchErrors}

C20_TerminalReached == \A t \in Tokens : InFlight(t) ~> (Terminal(t) \/ ai.requestId > t)

\* The current request ended with its final text rendered.
C20_Witness ==
    /\ act.name = "FetchResolved"
    /\ Terminal(ai.requestId)
    /\ ai.content.rendered

(***************************************************************************)
(* C21.  Once a parsed result is rendered, the content has an Examples     *)
(* section exactly when the result's examples list is non-empty; the       *)
(* section has one entry per example, in list order; an entry's lines are  *)
(* the text line, if the example's text is a non-empty string, then the    *)
(* explanation line, if its explain is one; the section has at least one   *)
(* entry and every entry has at least one line.                            *)
(***************************************************************************)
\* The positions of the content's sections with the given title.
SectionsTitled(children, sectionTitle) ==
    {i \in 1..Len(children) :
        /\ children[i].className = "ai-explanation-section"
        /\ children[i].children[1].textContent = sectionTitle}

\* The entries of an Examples section.
EntriesOf(section) == section.children[2].children

\* The lines an example is to be shown with.
LinesFor(example) ==
    (IF StringField(example, "text") # ""
     THEN <<Element("ai-explanation-example-text", StringField(example, "text"), <<>>)>>
     ELSE <<>>)
    \o (IF StringField(example, "explain") # ""
        THEN <<Element("ai-explanation-example-explain", StringField(example, "explain"), <<>>)>>
        ELSE <<>>)

C21_ExamplesSection ==
    view.rendered =>
        LET examples == ExamplesOf(view.parsed[1].val)
            found == SectionsTitled(view.children, "Examples")
        IN  /\ Cardinality(found) = (IF Len(examples) > 0 THEN 1 ELSE 0)
            /\ \A i \in found :
                   LET entries == EntriesOf(view.children[i]) IN
                   /\ Len(entries) = Len(examples)
                   /\ \A k \in 1..Len(entries) : entries[k].children = LinesFor(examples[k])
                   /\ Len(entries) > 0
                   /\ \A k \in 1..Len(entries) : Len(entries[k].children) > 0

(***************************************************************************)
(* C22.  When the streaming client has returned (the body read whole, the  *)
(* sentinel, or the end of the stream), onText has been called at least    *)
(* once and the text returned is the argument of its last call; when it    *)
(* has thrown, it has returned no text; when it has thrown the HTTP error, *)
(* onText has never been called.                                           *)
(***************************************************************************)
C22_ReturnIsLastPartial ==
    /\ call.pc = "returned" =>
           /\ call.cause \in {"body", "sentinel", "end"}
           /\ call.thrown = <<>>
           /\ Len(call.onText) >= 1
           /\ call.returned = <<call.onText[Len(call.onText)]>>
    /\ call.pc = "thrown" =>
           /\ call.returned = <<>>
           /\ call.thrown # <<>>
    /\ call.cause = "http" => call.pc = "thrown" /\ call.onText = <<>>

\* The stream ended without a sentinel after partials, and the text returned
\* is the argument of the last call of onText.
C22_Witness ==
    /\ call.pc = "returned"
    /\ call.cause = "end"
    /\ Len(call.onText) >= 2
    /\ call.returned = <<call.onText[Len(call.onText)]>>
    /\ call.returned # <<"">>

(***************************************************************************)
(* C8.  Whenever the most recent lookup was not Shift-modified the pane is *)
(* hidden.  The code breaks this: the rejected settings fetch of an        *)
(* earlier Shift lookup shows the pane.                                    *)
(***************************************************************************)
C8_NonShiftLookupHidden == ~IsShiftLookup(historyState) => ai.rootHidden

(***************************************************************************)
(* C9.  Every contentClear strictly increases the request token, so every  *)
(* token captured before it is stale afterwards; the token never decreases *)
(* and a newly captured token was never captured before.                   *)
(***************************************************************************)
C9_TokenMonotonic ==
    [][/\ ai'.requestId >= ai.requestId
       /\ act'.name = "ContentClear"
            => /\ ai'.requestId > ai.requestId
               /\ \A o \in ops' : o.token < ai'.requestId
       /\ \A o \in ops : o.token <= ai.requestId
       /\ \A o \in ops' : 
            o.token \notin {p.token : p \in ops}
                => o.token > ai.requestId /\ o.token = ai'.requestId]_vars

\* A clear with a call in flight, and one with none.
C9_Witness ==
    /\ act.name = "ContentClear"
    /\ ops # {}
    /\ \A o \in ops : o.token < ai.requestId

(***************************************************************************)
(* C10.  When the settings fetch of the current lookup failed, the pane    *)
(* shows the settings-unavailable message with the button hidden, no       *)
(* pending input is recorded, no call of that lookup is in flight, and a   *)
(* button click changes nothing.                                           *)
(***************************************************************************)
C10_FailedView ==
    modeState = "settingsUnavailable" =>
        /\ Pane(ai) = [rootHidden |-> FALSE, buttonHidden |-> TRUE,
                       statusText |-> StatusSettingsUnavailable,
                       content |-> TextContent("")]
        /\ ai.pendingInput = <<>>
        /\ ai.settings = <<>>
        /\ \A o \in ops : o.lookup # lookup

C10_SettingsFailure ==
    /\ []C10_FailedView
    /\ [][(modeState = "settingsUnavailable" /\ act'.name = "ButtonClick")
            => (ai' = ai /\ ops' = ops /\ modeState' = modeState)]_vars

\* A click handled after the settings fetch of the latest lookup failed.
C10_Witness == modeState = "settingsUnavailable" /\ act.name = "ButtonClick"

=============================================================================
